---- MODULE Spec2Model ----
(***************************************************************************)
(* Shutdown/reboot watcher of WsprryPi: executables/wspr_watch.py.         *)
(*                                                                         *)
(* The main thread runs run() -> handle_arguments() -> start_gpio_watch()  *)
(* -> file_watch(); the GPIO library calls the button callback; signals    *)
(* are delivered to the main thread; other processes create and remove the *)
(* semaphore files.                                                        *)
(***************************************************************************)
EXTENDS Integers, Sequences, FiniteSets, TLC

(* ------------------------------------------------------------------ *)
(* Bounds of the model                                                 *)
(* ------------------------------------------------------------------ *)

\* number of semaphore-file creations by other processes
MaxGen == 2

\* number of button presses
MaxPress == 2

\* number of signals delivered to executables/shutdown_watch.py
MaxSignal == 2

(* ------------------------------------------------------------------ *)
(* Program constants                                                   *)
(* ------------------------------------------------------------------ *)

STOP_FILE_PATH == "/var/www/html/wsprrypi/shutdown.semaphore"

REBOOT_FILE_PATH == "/var/www/html/wsprrypi/reboot.semaphore"

\* Python's None (a file_path, a stop_button, a local_termios that is not given)
None == "None"

\* the order of the two checks of one poll iteration, and of the startup loop
SemaphoreFiles == <<STOP_FILE_PATH, REBOOT_FILE_PATH>>

Files == {STOP_FILE_PATH, REBOOT_FILE_PATH}

\* args.pin when -p is not given
NoPin == -1

\* lgpio when no code that is still to run reads the name
Unread == "unread"

\* values of args.pin considered
Pins == {NoPin, 17}

\* file generation of a path that does not exist
Absent == 0

\* file generation of a semaphore that was there before the process started
Preexisting == -2

\* no exit code yet
Running == -1

VARIABLES
    args,             \* [watch, debug, pin]: the parsed command line
    root,             \* os.getuid() = 0
    lgpio,            \* the module lgpio, or None if the import failed; Unread
                      \* once past start_gpio_watch, the last code that reads it
    pc,               \* position of the main thread
    file_path,        \* the semaphore the main thread is working on
    gen,              \* generation of the file the poll has just unlinked
    files,            \* path -> generation of the file there (Absent: none)
    nextGen,          \* generation the next created file gets
    extRemoved,       \* another process has removed a semaphore file
    term,             \* terminal settings: "orig" or "noecho"
    original_termios, \* run()'s local: None or the saved settings
    atexitReg,        \* restore_terminal is registered with atexit
    handlers,         \* handle_signal is installed for SIGINT/SIGTERM/SIGHUP
    signalled,        \* a signal has been delivered to the handler
    signal_received,  \* handle_signal's parameter while its SystemExit unwinds
                      \* to run(), else None
    stop_button,      \* None or the gpiozero.Button of start_gpio_watch
    when_pressed,     \* stop_button.when_pressed is set
    gpioResult,       \* what start_gpio_watch returned (Running: not returned)
    buttonOutcome,    \* how the gpiozero.Button(...) call in progress ended, or None
    presses,          \* button presses so far
    dispatched,       \* the calls of initiate_action, in order
    spawned,          \* the child processes launched, in order
    log,              \* the log lines written by the latest step of the program
    exc,              \* class of the exception propagating in run(), or None
    code,             \* its exit code (SystemExit), else Running
    exitCode,         \* exit code of the process, Running while it runs
    iter,             \* the current poll iteration: files present / acted on
    idleRun,          \* completed iterations in a row that saw no file (<= 2)
    shutdown_watch,   \* the process of executables/shutdown_watch.py (a record)
    script_watch,     \* the process of scripts/shutdown_watch.py or of
                      \* scripts/shutdown-watch.py (a record)
    socketwatch,       \* the process of scripts/socketwatch.py (a record)
    release,           \* a run of update_files of scripts/release.py (a record)
    update_versions   \* a run of release_tools/update_versions.py (a record)

cfgVars == <<args, root, lgpio>>
fsVars == <<files, nextGen, extRemoved>>
termVars == <<term, original_termios, atexitReg>>
sigVars == <<handlers, signalled, signal_received>>
gpioVars == <<stop_button, when_pressed, gpioResult, buttonOutcome, presses>>
outVars == <<dispatched, spawned>>
pollVars == <<iter, idleRun>>

\* the state of the other programs, which wspr_watch.py never touches
otherPrograms == <<shutdown_watch, script_watch, socketwatch, release, update_versions>>

vars == <<args, root, lgpio, pc, file_path, gen, files, nextGen,
          extRemoved, term, original_termios, atexitReg, handlers, signalled,
          signal_received,
          stop_button, when_pressed, gpioResult, buttonOutcome, presses, dispatched,
          spawned, log, exc, code, exitCode, iter, idleRun>>

NoIter == [present |-> {}, acted |-> {}]

(* ------------------------------------------------------------------ *)
(* Helpers: the file system, the terminal                              *)
(* ------------------------------------------------------------------ *)

\* (mutant) exists() that never sees the reboot semaphore
ExistsOnlyStop(fs, p) == p = STOP_FILE_PATH /\ fs[p] # Absent

\* (mutant) exists() that is always true
ExistsAlways(fs, p) == TRUE

\* Path(p).exists()
Exists(fs, p) == fs[p] # Absent

\* (mutant) unlink that leaves the file in place
UnlinkKeepsFile(fs, p) == fs

\* the file system after a successful Path(p).unlink()
Unlink(fs, p) == [fs EXCEPT ![p] = Absent]

\* (mutant) an iteration that ends after its first check
NextFileNone(p) == None

\* the semaphore checked after p in one poll iteration (None: p was the last)
NextFile(p) == IF p = SemaphoreFiles[1] THEN SemaphoreFiles[2] ELSE None

\* (mutant) restore_terminal that restores nothing
RestoreTerminalNothing(local_termios, t) == t

\* restore_terminal(local_termios): the terminal settings afterwards
RestoreTerminal(local_termios, t) == IF local_termios # None THEN local_termios ELSE t

(* ------------------------------------------------------------------ *)
(* initiate_action                                                     *)
(* ------------------------------------------------------------------ *)

\* (mutant) the two commands exchanged
CommandStringSwapped(path) == IF path = STOP_FILE_PATH THEN "reboot" ELSE "shutdown -h now"

\* command_string / action_string of initiate_action for a semaphore path
CommandString(path) == IF path = STOP_FILE_PATH THEN "shutdown -h now" ELSE "reboot"

\* the child subprocess.Popen launches: sh -c "sleep 1 && <command>",
\* start_new_session=True (detached), stdout and stderr to DEVNULL
Popen(command_string) ==
    [argv |-> <<"sh", "-c", "sleep 1 && " \o command_string>>,
     start_new_session |-> TRUE,
     output |-> "DEVNULL"]

\* (mutant) the try block of initiate_action without
\* `stop_button.when_pressed = None`
InitiateCommandKeepsCallback(button, path, popen_ok) ==
    IF path = None /\ button = None
    THEN [ret |-> "0", spawn |-> <<>>, disable |-> FALSE, logs |-> {"warning: no trigger"}]
    ELSE IF path \notin {STOP_FILE_PATH, REBOOT_FILE_PATH}
    THEN [ret |-> "0", spawn |-> <<>>, disable |-> FALSE,
          logs |-> {"debug: actions undefined"}]
    ELSE IF popen_ok
    THEN [ret |-> "0", spawn |-> <<Popen(CommandString(path))>>,
          disable |-> FALSE, logs |-> {"info: process initiated"}]
    ELSE [ret |-> "exit1", spawn |-> <<>>, disable |-> FALSE,
          logs |-> {"error: failed to initiate action"}]

\* the try block of initiate_action (not in debug mode); popen_ok: whether
\* Popen succeeds when it is reached.  ret: "0", "1", or "exit1" for
\* sys.exit(1); spawn: the children launched; disable: when_pressed was set
\* to None.
InitiateCommand(button, path, popen_ok) ==
    IF path = None /\ button = None
    THEN [ret |-> "0", spawn |-> <<>>, disable |-> FALSE, logs |-> {"warning: no trigger"}]
    ELSE IF path \notin {STOP_FILE_PATH, REBOOT_FILE_PATH}
    THEN [ret |-> "0", spawn |-> <<>>, disable |-> (button # None),
          logs |-> {"debug: actions undefined"}]
    ELSE IF popen_ok
    THEN [ret |-> "0", spawn |-> <<Popen(CommandString(path))>>,
          disable |-> (button # None), logs |-> {"info: process initiated"}]
    ELSE [ret |-> "exit1", spawn |-> <<>>, disable |-> (button # None),
          logs |-> {"error: failed to initiate action"}]

\* (mutant) initiate_action that leaves stop_button.when_pressed as it is
InitiateActionKeepsCallback(debug, button, path, popen_ok) ==
    IF debug
    THEN [ret |-> "0", spawn |-> <<>>, disable |-> FALSE, logs |-> {"debug: prevented"}]
    ELSE [InitiateCommand(button, path, popen_ok) EXCEPT !.disable = FALSE]

\* (mutant) initiate_action that logs a failed launch and returns 1
InitiateActionFailureReturns(debug, button, path, popen_ok) ==
    IF debug
    THEN [ret |-> "0", spawn |-> <<>>, disable |-> FALSE, logs |-> {"debug: prevented"}]
    ELSE IF path \in {STOP_FILE_PATH, REBOOT_FILE_PATH} /\ ~popen_ok
    THEN [ret |-> "1", spawn |-> <<>>, disable |-> (button # None),
          logs |-> {"error: failed to initiate action"}]
    ELSE InitiateCommand(button, path, popen_ok)

\* (mutant) initiate_action without the early return of debug mode
InitiateActionIgnoresDebug(debug, button, path, popen_ok) ==
    InitiateCommand(button, path, popen_ok)

\* initiate_action(logger, debug, button, path)
InitiateAction(debug, button, path, popen_ok) ==
    IF debug
    THEN [ret |-> "0", spawn |-> <<>>, disable |-> FALSE, logs |-> {"debug: prevented"}]
    ELSE InitiateCommand(button, path, popen_ok)

(* ------------------------------------------------------------------ *)
(* GPIO start                                                          *)
(* ------------------------------------------------------------------ *)

\* what gpiozero.Button(pin) can do: succeed, or raise one of these classes
\* ("GPIOZeroError": an exception of the library that derives from Exception
\* only, such as GPIOPinInUse).  lgpio.error exists only with lgpio imported.
ButtonOutcomes(lg) ==
    {"ok", "OSError", "RuntimeError", "KeyError", "ValueError", "GPIOZeroError"}
        \cup (IF lg # None THEN {"lgpio.error"} ELSE {})

\* (mutant) is_gpio_available that does not catch KeyError
IsGpioAvailableKeyErrorRaised(outcome, lg) ==
    IF outcome = "ok" THEN "True"
    ELSE IF outcome \in {"OSError", "RuntimeError"} THEN "False"
    ELSE IF lg # None /\ outcome = "lgpio.error" THEN "False"
    ELSE outcome

\* is_gpio_available(pin): "True", "False", or the class it re-raises
IsGpioAvailable(outcome, lg) ==
    IF outcome = "ok" THEN "True"
    ELSE IF outcome \in {"OSError", "RuntimeError", "KeyError"} THEN "False"
    ELSE IF lg # None /\ outcome = "lgpio.error" THEN "False"
    ELSE outcome

\* the try block of start_gpio_watch: "0", "1", or the class raised past it
\* (with lgpio = None, evaluating `except lgpio.error` raises AttributeError)
SetupButton(outcome, lg) ==
    IF outcome = "ok" THEN "0"
    ELSE IF outcome \in {"OSError", "RuntimeError", "KeyError"} THEN "1"
    ELSE IF lg = None THEN "AttributeError"
    ELSE IF outcome = "lgpio.error" THEN "1"
    ELSE outcome

(* ------------------------------------------------------------------ *)
(* run(): the except clauses                                           *)
(* ------------------------------------------------------------------ *)

\* (mutant) run() that exits with 0 from its first except clause
RunExitCodeFatalZero(e, c) ==
    IF e \in {"RuntimeError", "OSError", "FileNotFoundError", "ValueError", "SubprocessError"}
    THEN 0
    ELSE IF e = "KeyboardInterrupt" THEN 130
    ELSE IF e = "SystemExit" THEN c
    ELSE 1

\* exit code run() ends with when exception class e (code c) reaches it;
\* a class no clause names leaves run() and the interpreter exits with 1
RunExitCode(e, c) ==
    IF e \in {"RuntimeError", "OSError", "FileNotFoundError", "ValueError", "SubprocessError"}
    THEN 1
    ELSE IF e = "KeyboardInterrupt" THEN 130
    ELSE IF e = "SystemExit" THEN c
    ELSE 1

\* what run() logs for it
RunExceptLog(e) ==
    IF e \in {"RuntimeError", "OSError", "FileNotFoundError", "ValueError", "SubprocessError"}
    THEN {"critical: unhandled application error"}
    ELSE IF e = "KeyboardInterrupt" THEN {"info: interrupted by user"}
    ELSE {}

(* ------------------------------------------------------------------ *)
(* Initial state                                                       *)
(* ------------------------------------------------------------------ *)

\* executables/shutdown_watch.py is not running
NotStarted == [pc |-> "not_started"]

Init ==
    /\ args \in [watch : BOOLEAN, debug : BOOLEAN, pin : Pins]
    /\ root \in BOOLEAN
    /\ lgpio \in {"lgpio", None}
    /\ pc = "startup"
    /\ file_path = SemaphoreFiles[1]
    /\ gen = Absent
    /\ files \in [Files -> {Absent, Preexisting}]
    /\ nextGen = 1
    /\ extRemoved = FALSE
    /\ term = "orig"
    /\ original_termios = None
    /\ atexitReg = FALSE
    /\ handlers = FALSE
    /\ signalled = FALSE
    /\ signal_received = None
    /\ stop_button = None
    /\ when_pressed = FALSE
    /\ gpioResult = Running
    /\ buttonOutcome = None
    /\ presses = 0
    /\ dispatched = <<>>
    /\ spawned = <<>>
    /\ log = {}
    /\ exc = None
    /\ code = Running
    /\ exitCode = Running
    /\ iter = NoIter
    /\ idleRun = 0
    /\ shutdown_watch = NotStarted
    /\ script_watch = NotStarted
    /\ socketwatch = NotStarted
    /\ release = NotStarted
    /\ update_versions = NotStarted

\* raising exception class e (exit code c for SystemExit) in the try of run()
Raise(e, c) ==
    /\ pc' = "run_except"
    /\ exc' = e
    /\ code' = c

(* ------------------------------------------------------------------ *)
(* run(): startup                                                      *)
(* ------------------------------------------------------------------ *)

\* (mutant) a startup that leaves the semaphores in place
StartupUnlinkKeepsFiles ==
    /\ pc = "startup"
    /\ files' = files
    /\ log' = {}
    /\ IF NextFile(file_path) # None
       THEN pc' = "startup" /\ file_path' = NextFile(file_path)
       ELSE pc' = "disable_ctrlc_echo" /\ file_path' = None
    /\ UNCHANGED <<cfgVars, gen, nextGen, extRemoved, termVars, sigVars, gpioVars,
                   outVars, exc, code, exitCode, pollVars>>
    /\ UNCHANGED otherPrograms

\* run(): delete the semaphores on startup, FileNotFoundError passed over
StartupUnlink ==
    /\ pc = "startup"
    /\ files' = Unlink(files, file_path)
    /\ log' = IF Exists(files, file_path) THEN {"info: startup deleted"} ELSE {}
    /\ IF NextFile(file_path) # None
       THEN pc' = "startup" /\ file_path' = NextFile(file_path)
       ELSE pc' = "disable_ctrlc_echo" /\ file_path' = None
    /\ UNCHANGED <<cfgVars, gen, nextGen, extRemoved, termVars, sigVars, gpioVars,
                   outVars, exc, code, exitCode, pollVars>>
    /\ UNCHANGED otherPrograms

\* disable_ctrlc_echo(logger): not a terminal, or ECHOCTL cleared and the
\* original settings returned, or termios.error and None returned
DisableCtrlcEcho ==
    /\ pc = "disable_ctrlc_echo"
    /\ \E isatty \in BOOLEAN, termios_ok \in BOOLEAN :
        IF ~isatty
        THEN original_termios' = None /\ term' = term /\ log' = {}
        ELSE IF termios_ok
        THEN original_termios' = term /\ term' = "noecho" /\ log' = {}
        ELSE original_termios' = None /\ term' = term
             /\ log' = {"warning: failed to disable echo"}
    /\ pc' = "atexit_register"
    /\ UNCHANGED <<cfgVars, file_path, gen, fsVars, atexitReg, sigVars, gpioVars,
                   outVars, exc, code, exitCode, pollVars>>
    /\ UNCHANGED otherPrograms

\* atexit.register(restore_terminal, original_termios)
AtexitRegister ==
    /\ pc = "atexit_register"
    /\ atexitReg' = TRUE
    /\ log' = {}
    /\ pc' = "signal_install"
    /\ UNCHANGED <<cfgVars, file_path, gen, fsVars, term, original_termios, sigVars,
                   gpioVars, outVars, exc, code, exitCode, pollVars>>
    /\ UNCHANGED otherPrograms

\* signal.signal(SIGINT / SIGTERM / SIGHUP, handle_signal)
InstallSignalHandlers ==
    /\ pc = "signal_install"
    /\ handlers' = TRUE
    /\ log' = {}
    /\ pc' = "handle_arguments"
    /\ UNCHANGED <<cfgVars, file_path, gen, fsVars, termVars, signalled, signal_received,
                   gpioVars,
                   outVars, exc, code, exitCode, pollVars>>
    /\ UNCHANGED otherPrograms

\* (mutant) handle_arguments without the is_root() check
HandleArgumentsNoRootCheck ==
    /\ pc = "handle_arguments"
    /\ IF ~args.watch
       THEN /\ Raise("SystemExit", 1)
            /\ log' = {"print: -w is required"}
            /\ file_path' = file_path
       ELSE /\ log' = {"info: starting shutdown watcher"}
            /\ exc' = exc /\ code' = code
            /\ IF args.pin \notin {NoPin, 0}
               THEN pc' = "is_gpio_available" /\ file_path' = file_path
               ELSE pc' = "exists" /\ file_path' = SemaphoreFiles[1]
    /\ lgpio' = IF pc' = "exists" THEN Unread ELSE lgpio
    /\ UNCHANGED <<args, root, gen, fsVars, termVars, sigVars, gpioVars, outVars,
                   exitCode, pollVars>>
    /\ UNCHANGED otherPrograms

\* handle_arguments(logger, args) up to the start of the watch; a return
\* value r becomes sys.exit(r) in run()
HandleArguments ==
    /\ pc = "handle_arguments"
    /\ IF ~args.watch
       THEN /\ Raise("SystemExit", 1)
            /\ log' = {"print: -w is required"}
            /\ file_path' = file_path
       ELSE IF ~root
       THEN /\ Raise("SystemExit", 1)
            /\ log' = {"error: must be run as root"}
            /\ file_path' = file_path
       ELSE /\ log' = {"info: starting shutdown watcher"}
            /\ exc' = exc /\ code' = code
            /\ IF args.pin \notin {NoPin, 0}
               THEN pc' = "is_gpio_available" /\ file_path' = file_path
               ELSE pc' = "exists" /\ file_path' = SemaphoreFiles[1]
    /\ lgpio' = IF pc' = "exists" THEN Unread ELSE lgpio
    /\ UNCHANGED <<args, root, gen, fsVars, termVars, sigVars, gpioVars, outVars,
                   exitCode, pollVars>>
    /\ UNCHANGED otherPrograms

(* ------------------------------------------------------------------ *)
(* start_gpio_watch                                                    *)
(* ------------------------------------------------------------------ *)

\* gpiozero.Button(...) is called, in is_gpio_available (the probe, closed
\* at once) or in the try block of start_gpio_watch: it succeeds or raises
ButtonCall ==
    /\ pc \in {"is_gpio_available", "setup_button"}
    /\ buttonOutcome = None
    /\ buttonOutcome' \in ButtonOutcomes(lgpio)
    /\ log' = {}
    /\ UNCHANGED <<cfgVars, pc, file_path, gen, fsVars, termVars, sigVars, stop_button,
                   when_pressed, gpioResult, presses, outVars, exc, code, exitCode,
                   pollVars>>
    /\ UNCHANGED otherPrograms

\* start_gpio_watch: what is_gpio_available(stop_pin) answers, and the return
\* of 1 with a warning if the pin is not available
GpioAvailable ==
    /\ pc = "is_gpio_available"
    /\ buttonOutcome # None
    /\ buttonOutcome' = None
    /\ LET r == IsGpioAvailable(buttonOutcome, lgpio) IN
        IF r = "True"
        THEN /\ pc' = "setup_button"
             /\ log' = {}
             /\ UNCHANGED <<file_path, gpioResult, exc, code>>
        ELSE IF r = "False"
        THEN /\ gpioResult' = 1
             /\ log' = {"warning: GPIO is busy"}
             /\ pc' = "exists" /\ file_path' = SemaphoreFiles[1]
             /\ UNCHANGED <<exc, code>>
        ELSE /\ Raise(r, Running)
             /\ log' = {}
             /\ UNCHANGED <<file_path, gpioResult>>
    /\ lgpio' = IF pc' = "setup_button" THEN lgpio ELSE Unread
    /\ UNCHANGED <<args, root, gen, fsVars, termVars, sigVars, stop_button, when_pressed,
                   presses, outVars, exitCode, pollVars>>
    /\ UNCHANGED otherPrograms

\* start_gpio_watch: the try block that creates the button and its callback,
\* and its except clauses
GpioSetup ==
    /\ pc = "setup_button"
    /\ buttonOutcome # None
    /\ buttonOutcome' = None
    /\ LET r == SetupButton(buttonOutcome, lgpio) IN
        IF r = "0"
        THEN /\ stop_button' = "Button" /\ when_pressed' = TRUE
             /\ gpioResult' = 0
             /\ log' = {"info: monitoring GPIO"}
             /\ pc' = "exists" /\ file_path' = SemaphoreFiles[1]
             /\ UNCHANGED <<exc, code>>
        ELSE IF r = "1"
        THEN /\ gpioResult' = 1
             /\ log' = {"warning: could not initialize GPIO"}
             /\ pc' = "exists" /\ file_path' = SemaphoreFiles[1]
             /\ UNCHANGED <<stop_button, when_pressed, exc, code>>
        ELSE /\ Raise(r, Running)
             /\ log' = {}
             /\ UNCHANGED <<stop_button, when_pressed, gpioResult, file_path>>
    /\ lgpio' = Unread
    /\ UNCHANGED <<args, root, gen, fsVars, termVars, sigVars, presses, outVars,
                   exitCode, pollVars>>
    /\ UNCHANGED otherPrograms

\* the library calls stop_button.when_pressed, if it is set:
\* initiate_action(logger, debug, stop_button, None)
GpioPress ==
    /\ stop_button # None
    /\ exitCode = Running
    /\ presses < MaxPress
    /\ presses' = presses + 1
    /\ IF when_pressed
       THEN \E popen_ok \in BOOLEAN :
            LET r == InitiateAction(args.debug, stop_button, None, popen_ok) IN
            /\ dispatched' = Append(dispatched,
                   [trig |-> "GPIO", gen |-> Absent, spawn |-> r.spawn, ret |-> r.ret])
            /\ spawned' = spawned \o r.spawn
            /\ when_pressed' = ~r.disable
            /\ log' = r.logs
       ELSE UNCHANGED <<dispatched, spawned, when_pressed, log>>
    /\ UNCHANGED <<cfgVars, pc, file_path, gen, fsVars, termVars, sigVars, stop_button,
                   gpioResult, buttonOutcome, exc, code, exitCode, pollVars>>
    /\ UNCHANGED otherPrograms

(* ------------------------------------------------------------------ *)
(* file_watch: one poll iteration is exists/unlink/initiate for the    *)
(* shutdown semaphore, the same for the reboot semaphore, then sleep   *)
(* ------------------------------------------------------------------ *)

\* the files that exist among those in ps (what this iteration has seen)
Seen(fs, ps) == {p \in ps : fs[p] # Absent}

\* if Path(file_path).exists():
PollExists ==
    /\ pc = "exists"
    /\ iter' = [iter EXCEPT !.present = @ \cup Seen(files, {file_path})]
    /\ IF Exists(files, file_path)
       THEN pc' = "unlink" /\ file_path' = file_path
       ELSE IF NextFile(file_path) # None
       THEN pc' = "exists" /\ file_path' = NextFile(file_path)
       ELSE pc' = "sleep" /\ file_path' = None
    /\ log' = {}
    /\ UNCHANGED <<cfgVars, gen, fsVars, termVars, sigVars, gpioVars, outVars,
                   exc, code, exitCode, idleRun>>
    /\ UNCHANGED otherPrograms

\* Path(file_path).unlink(): FileNotFoundError if the file is gone
PollUnlink ==
    /\ pc = "unlink"
    /\ iter' = [iter EXCEPT !.acted = @ \cup {file_path}]
    /\ IF files[file_path] # Absent
       THEN /\ files' = Unlink(files, file_path)
            /\ gen' = files[file_path]
            /\ pc' = "initiate"
            /\ UNCHANGED <<exc, code>>
       ELSE /\ Raise("FileNotFoundError", Running)
            /\ UNCHANGED <<files, gen>>
    /\ UNCHANGED <<cfgVars, file_path, nextGen, extRemoved, termVars, sigVars, gpioVars,
                   outVars, exitCode, idleRun>>
    /\ log' = {}
    /\ UNCHANGED otherPrograms

\* logger.info("... requested by presence of ..."); then
\* initiate_action(logger, debug, None, file_path)
PollInitiate ==
    /\ pc = "initiate"
    /\ \E popen_ok \in BOOLEAN :
        LET r == InitiateAction(args.debug, None, file_path, popen_ok) IN
        /\ dispatched' = Append(dispatched,
               [trig |-> file_path, gen |-> gen, spawn |-> r.spawn, ret |-> r.ret])
        /\ spawned' = spawned \o r.spawn
        /\ log' = {"info: requested by presence of file"} \cup r.logs
        /\ IF r.ret = "exit1"
           THEN Raise("SystemExit", 1) /\ file_path' = file_path
           ELSE /\ UNCHANGED <<exc, code>>
                /\ IF NextFile(file_path) # None
                   THEN pc' = "exists" /\ file_path' = NextFile(file_path)
                   ELSE pc' = "sleep" /\ file_path' = None
    /\ gen' = Absent
    /\ iter' = [iter EXCEPT !.acted = @ \cup {file_path}]
    /\ UNCHANGED <<cfgVars, fsVars, termVars, sigVars, gpioVars, exitCode, idleRun>>
    /\ UNCHANGED otherPrograms

\* time.sleep(1), and the loop starts over
PollSleep ==
    /\ pc = "sleep"
    /\ pc' = "exists"
    /\ file_path' = SemaphoreFiles[1]
    /\ iter' = NoIter
    /\ idleRun' = IF iter.present = {} THEN (IF idleRun < 2 THEN idleRun + 1 ELSE idleRun)
                  ELSE 0
    /\ log' = {}
    /\ UNCHANGED <<cfgVars, gen, fsVars, termVars, sigVars, gpioVars, outVars,
                   exc, code, exitCode>>
    /\ UNCHANGED otherPrograms

(* ------------------------------------------------------------------ *)
(* run(): the except clauses, the exit of the process                  *)
(* ------------------------------------------------------------------ *)

\* an exception reaches the except clauses of run(): sys.exit(...) there, or
\* the interpreter ends on a class no clause names
RunExcept ==
    /\ pc = "run_except"
    /\ code' = RunExitCode(exc, code)
    /\ log' = RunExceptLog(exc)
    /\ exc' = "SystemExit"
    /\ pc' = "exit"
    /\ signal_received' = None
    /\ UNCHANGED <<cfgVars, file_path, gen, fsVars, termVars, handlers, signalled, gpioVars,
                   outVars, exitCode, pollVars>>
    /\ UNCHANGED otherPrograms

\* the interpreter exits: the atexit functions run, the exit code is given
Exit ==
    /\ pc = "exit"
    /\ term' = IF atexitReg THEN RestoreTerminal(original_termios, term) ELSE term
    /\ exitCode' = code
    /\ pc' = "exited"
    /\ signal_received' = None
    /\ UNCHANGED <<cfgVars, file_path, gen, fsVars, original_termios, atexitReg,
                   handlers, signalled, gpioVars, outVars, exc, code, pollVars>>
    /\ log' = {}
    /\ UNCHANGED otherPrograms

(* ------------------------------------------------------------------ *)
(* Signals                                                             *)
(* ------------------------------------------------------------------ *)

Signals == {"SIGINT", "SIGTERM", "SIGHUP"}

\* handle_signal(signal_received, _frame, logger), run in the main thread
\* wherever it is: log, restore_terminal() without settings, sys.exit(0)
HandleSignal(sig) ==
    /\ sig \in Signals
    /\ log' = {"info: received signal"}
    /\ term' = RestoreTerminal(None, term)
    /\ exc' = "SystemExit"
    /\ code' = 0
    /\ pc' = IF pc = "exit" THEN "exit" ELSE "run_except"

\* a signal is delivered once the handlers are installed
Signal ==
    /\ handlers
    /\ pc # "exited"
    /\ \E sig \in Signals : HandleSignal(sig) /\ signal_received' = sig
    /\ signalled' = TRUE
    /\ UNCHANGED <<cfgVars, file_path, gen, fsVars, original_termios, atexitReg,
                   handlers, gpioVars, outVars, exitCode, pollVars>>
    /\ UNCHANGED otherPrograms

\* SIGINT before handle_signal is installed: Python's default handler raises
\* KeyboardInterrupt in the main thread, inside the try of run()
DefaultSigint ==
    /\ ~handlers
    /\ pc \in {"startup", "disable_ctrlc_echo", "atexit_register", "signal_install"}
    /\ Raise("KeyboardInterrupt", Running)
    /\ UNCHANGED <<cfgVars, file_path, gen, fsVars, termVars, sigVars, gpioVars,
                   outVars, log, exitCode, pollVars>>
    /\ UNCHANGED otherPrograms

(* ------------------------------------------------------------------ *)
(* Other processes                                                     *)
(* ------------------------------------------------------------------ *)

\* the main thread is on its way out of run(), or out; it reads no file then
Unwinding == {"run_except", "exit", "exited"}

\* another process (the web UI) creates a semaphore file
EnvCreate ==
    /\ pc \notin Unwinding
    /\ nextGen <= MaxGen
    /\ \E p \in Files :
        /\ files[p] = Absent
        /\ files' = [files EXCEPT ![p] = nextGen]
    /\ nextGen' = nextGen + 1
    /\ UNCHANGED <<cfgVars, pc, file_path, gen, extRemoved, termVars, sigVars,
                   gpioVars, outVars, log, exc, code, exitCode, pollVars>>
    /\ UNCHANGED otherPrograms

\* another process removes a semaphore file
EnvRemove ==
    /\ pc \notin Unwinding
    /\ \E p \in Files :
        /\ files[p] # Absent
        /\ files' = [files EXCEPT ![p] = Absent]
    /\ extRemoved' = TRUE
    /\ UNCHANGED <<cfgVars, pc, file_path, gen, nextGen, termVars, sigVars,
                   gpioVars, outVars, log, exc, code, exitCode, pollVars>>
    /\ UNCHANGED otherPrograms

(* ------------------------------------------------------------------ *)
(* Specifications                                                      *)
(* ------------------------------------------------------------------ *)

\* the steps of the main thread
Main ==
    \/ StartupUnlink
    \/ DisableCtrlcEcho
    \/ AtexitRegister
    \/ InstallSignalHandlers
    \/ HandleArguments
    \/ ButtonCall
    \/ GpioAvailable
    \/ GpioSetup
    \/ PollExists
    \/ PollUnlink
    \/ PollInitiate
    \/ PollSleep
    \/ RunExcept
    \/ Exit

\* the steps of everything else, signals apart
Env ==
    \/ GpioPress
    \/ EnvCreate
    \/ EnvRemove

Next == Main \/ Env \/ Signal \/ DefaultSigint

Spec == Init /\ [][Next]_vars

\* no termination signal arrives; the main thread is scheduled fairly
NextNoSignal == Main \/ Env

LiveSpec == Init /\ [][NextNoSignal]_vars /\ WF_vars(Main)

(* ------------------------------------------------------------------ *)
(* Vocabulary of the properties                                        *)
(* ------------------------------------------------------------------ *)

\* the main thread is in the while loop of file_watch
PollLoop == {"exists", "unlink", "initiate", "sleep"}

\* the children the specification names
ShutdownChild ==
    [argv |-> <<"sh", "-c", "sleep 1 && shutdown -h now">>,
     start_new_session |-> TRUE, output |-> "DEVNULL"]

RebootChild ==
    [argv |-> <<"sh", "-c", "sleep 1 && reboot">>,
     start_new_session |-> TRUE, output |-> "DEVNULL"]

\* the calls of initiate_action made for semaphore files / for the button
FileDispatches == {i \in DOMAIN dispatched : dispatched[i].trig \in Files}

GpioDispatches == {i \in DOMAIN dispatched : dispatched[i].trig = "GPIO"}

\* occurrence g of the file at p has been dispatched
Dispatched(p, g) == \E i \in FileDispatches : dispatched[i].trig = p /\ dispatched[i].gen = g

(* ------------------------------------------------------------------ *)
(* Properties                                                          *)
(* ------------------------------------------------------------------ *)

\* C1: not in debug mode, every file trigger that initiate_action has handled
\* (it returned) launched exactly one detached child, sleep 1 && shutdown -h
\* now for the shutdown semaphore and sleep 1 && reboot for the reboot
\* semaphore, and the file occurrence that signalled it exists no more.
C1_FileTriggerCommand ==
    ~args.debug =>
        \A i \in FileDispatches :
            LET d == dispatched[i] IN
            d.ret = "0" =>
                /\ d.trig = STOP_FILE_PATH => d.spawn = <<ShutdownChild>>
                /\ d.trig = REBOOT_FILE_PATH => d.spawn = <<RebootChild>>
                /\ d.gen # Absent
                /\ files[d.trig] # d.gen

\* both file triggers have been handled, not in debug mode
C1_Witness ==
    /\ ~args.debug
    /\ \E i, j \in FileDispatches :
        /\ dispatched[i].trig = STOP_FILE_PATH /\ dispatched[i].ret = "0"
        /\ dispatched[j].trig = REBOOT_FILE_PATH /\ dispatched[j].ret = "0"
    /\ Len(spawned) = 2

\* C2: not in debug mode, a button press (the callback's call
\* initiate_action(logger, debug, stop_button, None)) launches exactly one
\* detached sh -c "sleep 1 && shutdown -h now" child.
C2_GpioPressSpawnsShutdown ==
    ~args.debug =>
        \A i \in GpioDispatches : dispatched[i].spawn = <<ShutdownChild>>

\* C3: in debug mode no child is ever launched, and a step of the watch (the
\* GPIO start, the button callback, the poll) changes the file system only
\* by the poll's unlink of the semaphore file it has just detected.
C3_DebugNoAction ==
    /\ [](args.debug => spawned = <<>>)
    /\ [][(args.debug /\ (ButtonCall \/ GpioAvailable \/ GpioSetup \/ GpioPress
                          \/ PollExists \/ PollUnlink \/ PollInitiate \/ PollSleep))
            => \/ files' = files
               \/ /\ pc = "unlink"
                  /\ file_path \in iter.present
                  /\ files' = [files EXCEPT ![file_path] = Absent]]_vars

\* in debug mode a button press, a shutdown semaphore and a reboot semaphore
\* have all been dispatched
C3_Witness ==
    /\ args.debug
    /\ GpioDispatches # {}
    /\ \E i, j \in FileDispatches :
        dispatched[i].trig = STOP_FILE_PATH /\ dispatched[j].trig = REBOOT_FILE_PATH

\* C4: no occurrence of a semaphore file is dispatched twice, and when the
\* poll is about to log and call initiate_action the occurrence it detected
\* is already deleted.
C4_AtMostOnce ==
    /\ \A i, j \in FileDispatches :
        (i # j /\ dispatched[i].trig = dispatched[j].trig)
            => dispatched[i].gen # dispatched[j].gen
    /\ pc = "initiate" => (gen # Absent /\ files[file_path] # gen)

\* the same semaphore has been created, dispatched, created again and
\* dispatched again
C4_Witness ==
    \E i, j \in FileDispatches :
        /\ i < j
        /\ dispatched[i].trig = dispatched[j].trig
        /\ dispatched[i].gen < dispatched[j].gen

\* a launch of a child has failed (initiate_action ended in sys.exit(1))
SpawnFailed == \E i \in DOMAIN dispatched : dispatched[i].ret = "exit1"

C7_IdlePoll ==
    /\ [](iter.present = {} => iter.acted = {})
    /\ [][(PollExists /\ files[file_path] = Absent)
            => /\ files' = files
               /\ outVars' = outVars
               /\ exc' = None
               /\ pc' \in {"exists", "sleep"}]_vars
    /\ [][PollSleep => (files' = files /\ outVars' = outVars /\ exc' = None)]_vars

\* two iterations in a row found no file, with nothing dispatched
C7_Witness ==
    /\ idleRun = 2
    /\ pc = "exists"
    /\ \A p \in Files : files[p] = Absent
    /\ dispatched = <<>>
    /\ exc = None

\* C8: the unlink of a semaphore file that is gone (removed by another
\* process after the existence check) raises nothing and the watcher stays
\* in its poll loop.
C8_UnlinkMissingIsNoError ==
    [][(PollUnlink /\ files[file_path] = Absent)
        => (exc' = None /\ pc' \in PollLoop)]_vars

\* the exception classes start_gpio_watch turns into the result 1
CaughtButtonErrors ==
    {"OSError", "RuntimeError", "KeyError"} \cup (IF lgpio # None THEN {"lgpio.error"} ELSE {})

\* start_gpio_watch has returned 1 with a warning and the file watch starts
GpioSkipped ==
    /\ gpioResult' = 1
    /\ log' \in {{"warning: GPIO is busy"}, {"warning: could not initialize GPIO"}}
    /\ exc' = None
    /\ pc' = "exists"

C11_SigintExit130 ==
    [][(Signal /\ pc \in PollLoop /\ signal_received' = "SIGINT")
            => (exc' = "KeyboardInterrupt" \/ (exc' = "SystemExit" /\ code' = 130))]_vars

\* the main thread is in start_gpio_watch
GpioStart == {"is_gpio_available", "setup_button"}

C13_NoWatchNoEffect ==
    /\ [][(~args.watch /\ Main)
            => /\ files' = files
               /\ buttonOutcome' = None /\ stop_button' = None
               /\ spawned' = <<>>]_vars
    /\ [][(HandleArguments /\ ~args.watch)
            => /\ log' = {"print: -w is required"}
               /\ exc' = "SystemExit" /\ code' = 1]_vars

\* C14: if disable_ctrlc_echo changed the echo setting (it returned the saved
\* settings), then the process that has exited, in whatever way, has left
\* the terminal with its original settings.
C14_TerminalRestoredOnExit ==
    (pc = "exited" /\ original_termios # None) => term = "orig"

\* C15: not in debug mode, a poll step whose launch of the child fails (no
\* child comes out of it) logs the failure as an error and raises
\* SystemExit(1); the process that exits after a failed launch, with no
\* signal delivered, exits with code 1.
C15_SpawnFailureExits1 ==
    /\ [][(PollInitiate /\ ~args.debug /\ Len(spawned') = Len(spawned))
            => /\ "error: failed to initiate action" \in log'
               /\ exc' = "SystemExit" /\ code' = 1
               /\ pc' = "run_except"]_vars
    /\ []((pc = "exited" /\ SpawnFailed /\ ~signalled) => exitCode = 1)

\* the launch for the reboot semaphore has failed after a successful launch
\* for the shutdown semaphore, and the process has exited
C15_Witness ==
    /\ pc = "exited"
    /\ ~signalled
    /\ \E i, j \in FileDispatches :
        /\ i < j
        /\ dispatched[i].ret = "0" /\ dispatched[i].spawn # <<>>
        /\ dispatched[j].ret = "exit1" /\ dispatched[j].trig = REBOOT_FILE_PATH

\* C16 as stated: in debug mode and in normal mode alike, initiate_action is
\* entered through the GPIO callback for the first press only.
C16_CallbackOnce ==
    Cardinality(GpioDispatches) <= 1

\* C16 amended: in normal mode the first press disables the callback and
\* initiate_action is entered through it for that press only; in debug mode
\* the callback stays set and every press enters initiate_action.
C16_CallbackOnceNormalMode ==
    /\ ~args.debug
        => /\ Cardinality(GpioDispatches) <= 1
           /\ GpioDispatches # {} => ~when_pressed
    /\ args.debug
        => /\ Cardinality(GpioDispatches) = presses
           /\ stop_button # None => when_pressed

\* normal mode: the button has been pressed twice, the callback ran once
C16_Witness ==
    /\ ~args.debug
    /\ presses = 2
    /\ Cardinality(GpioDispatches) = 1

\* C17 as stated: in normal mode the poll's call of initiate_action for a
\* semaphore file leaves the GPIO callback disabled.
C17_FileActionDisablesCallback ==
    [][(PollInitiate /\ ~args.debug) => ~when_pressed']_vars

\* C17 amended: in normal mode initiate_action disables the GPIO callback
\* when it is entered through the callback (it is given the button), and
\* the poll's call for a semaphore file leaves the callback as it is.
C17_OnlyGpioActionDisablesCallback ==
    /\ [][(GpioPress /\ ~args.debug /\ when_pressed) => ~when_pressed']_vars
    /\ [][PollInitiate => when_pressed' = when_pressed]_vars

\* normal mode: after the action for a semaphore file was initiated, a
\* button press has entered initiate_action
C17_Witness ==
    /\ ~args.debug
    /\ \E i \in FileDispatches, j \in GpioDispatches :
        i < j /\ dispatched[i].spawn # <<>>

STOP_PIN == 19

STOP_FILE == "/tmp/stop"

\* wspr_watch.py is not running
WsprNotStarted ==
    /\ args = [watch |-> FALSE, debug |-> FALSE, pin |-> NoPin]
    /\ root = FALSE
    /\ lgpio = None
    /\ pc = "not_started"
    /\ file_path = None
    /\ gen = Absent
    /\ files = [p \in Files |-> Absent]
    /\ nextGen = 1
    /\ extRemoved = FALSE
    /\ term = "orig"
    /\ original_termios = None
    /\ atexitReg = FALSE
    /\ handlers = FALSE
    /\ signalled = FALSE
    /\ signal_received = None
    /\ stop_button = None
    /\ when_pressed = FALSE
    /\ gpioResult = Running
    /\ buttonOutcome = None
    /\ presses = 0
    /\ dispatched = <<>>
    /\ spawned = <<>>
    /\ log = {}
    /\ exc = None
    /\ code = Running
    /\ exitCode = Running
    /\ iter = NoIter
    /\ idleRun = 0

\* what executables/shutdown_watch.py never touches
swFrame == <<vars, script_watch, socketwatch, release, update_versions>>

\* what the older watchers of scripts/ never touch
scFrame == <<vars, shutdown_watch, socketwatch, release, update_versions>>

\* the start of `if __name__ == "__main__":`, the module globals as the
\* module body leaves them
SwInit ==
    /\ WsprNotStarted
    /\ script_watch = NotStarted
    /\ socketwatch = NotStarted
    /\ release = NotStarted
    /\ update_versions = NotStarted
    /\ shutdown_watch \in
        [pc : {"atexit_register"},
         args : [watch : BOOLEAN, debug : BOOLEAN],
         root : BOOLEAN,
         logger : {None},
         stop_button : {None},
         original_termios : {None},
         term : {"orig"},
         atexit : {FALSE},
         handlers : {FALSE},
         is_pressed : {FALSE},
         stop_file : BOOLEAN,
         closes : {0},
         triggers : {0},
         shutdowns : {0},
         signals : {0},
         code : {Running},
         exitCode : {Running}]

\* exit status of the process for sys.exit(c)
ExitStatus(c) == c % 256

\* restore_terminal(): the terminal after it
SwRestoreTerminal(sw) ==
    IF sw.original_termios # None THEN sw.original_termios ELSE sw.term

\* atexit.register(restore_terminal)
SwAtexitRegister ==
    /\ shutdown_watch.pc = "atexit_register"
    /\ shutdown_watch' = [shutdown_watch EXCEPT !.atexit = TRUE, !.pc = "register_signals"]
    /\ UNCHANGED swFrame

\* register_signals(): handle_signal for SIGINT, SIGTERM, SIGHUP, SIGUSR1,
\* SIGUSR2 (the three signal.signal calls after disable_ctrlc_echo repeat it)
SwRegisterSignals ==
    /\ shutdown_watch.pc = "register_signals"
    /\ shutdown_watch' = [shutdown_watch EXCEPT !.handlers = TRUE,
                                                !.pc = "disable_ctrlc_echo"]
    /\ UNCHANGED swFrame

\* disable_ctrlc_echo(): termios.error, which nothing catches, if stdin is
\* not a terminal
SwDisableCtrlcEcho ==
    /\ shutdown_watch.pc = "disable_ctrlc_echo"
    /\ \E isatty \in BOOLEAN :
        shutdown_watch' =
            IF isatty
            THEN [shutdown_watch EXCEPT !.original_termios = shutdown_watch.term,
                                        !.term = "noecho",
                                        !.pc = "handle_arguments"]
            ELSE [shutdown_watch EXCEPT !.code = 1, !.pc = "exit"]
    /\ UNCHANGED swFrame

\* handle_arguments(): setup_logger, then sys.exit(-1) if not root, the
\* watch, or the usage hint and the end of the script
SwHandleArguments ==
    /\ shutdown_watch.pc = "handle_arguments"
    /\ shutdown_watch' =
        IF ~shutdown_watch.args.watch
        THEN [shutdown_watch EXCEPT !.logger = "logger", !.code = 0, !.pc = "exit"]
        ELSE IF ~shutdown_watch.root
        THEN [shutdown_watch EXCEPT !.logger = "logger", !.code = -1, !.pc = "exit"]
        ELSE [shutdown_watch EXCEPT !.logger = "logger", !.pc = "button"]
    /\ UNCHANGED swFrame

\* watch(): stop_button = gpiozero.Button(STOP_PIN), or cleanup() from the
\* except clause
SwButton ==
    /\ shutdown_watch.pc = "button"
    /\ \E ok \in BOOLEAN :
        shutdown_watch' =
            IF ok
            THEN [shutdown_watch EXCEPT !.stop_button = "Button", !.pc = "check"]
            ELSE [shutdown_watch EXCEPT !.pc = "cleanup"]
    /\ UNCHANGED swFrame

\* if stop_button.is_pressed or os.path.isfile(STOP_FILE):
SwCheck ==
    /\ shutdown_watch.pc = "check"
    /\ shutdown_watch' =
        [shutdown_watch EXCEPT !.pc =
            IF shutdown_watch.is_pressed \/ shutdown_watch.stop_file
            THEN "isfile" ELSE "sleep"]
    /\ UNCHANGED swFrame

\* if os.path.isfile(STOP_FILE):
SwIsfile ==
    /\ shutdown_watch.pc = "isfile"
    /\ shutdown_watch' =
        [shutdown_watch EXCEPT !.pc = IF shutdown_watch.stop_file THEN "remove" ELSE "trigger"]
    /\ UNCHANGED swFrame

\* os.remove(STOP_FILE): FileNotFoundError, which nothing catches, if the
\* file is gone
SwRemove ==
    /\ shutdown_watch.pc = "remove"
    /\ shutdown_watch' =
        IF shutdown_watch.stop_file
        THEN [shutdown_watch EXCEPT !.stop_file = FALSE, !.pc = "trigger"]
        ELSE [shutdown_watch EXCEPT !.code = 1, !.pc = "exit"]
    /\ UNCHANGED swFrame

\* the log line of the trigger, then initiate_shutdown() unless debug (a
\* failure of Popen is logged there and passed over), then cleanup()
SwTrigger ==
    /\ shutdown_watch.pc = "trigger"
    /\ \E popen_ok \in BOOLEAN :
        shutdown_watch' =
            [shutdown_watch EXCEPT
                !.triggers = @ + 1,
                !.shutdowns = IF ~shutdown_watch.args.debug /\ popen_ok THEN @ + 1 ELSE @,
                !.pc = "cleanup"]
    /\ UNCHANGED swFrame

\* time.sleep(0.1)
SwSleep ==
    /\ shutdown_watch.pc = "sleep"
    /\ shutdown_watch' = [shutdown_watch EXCEPT !.pc = "check"]
    /\ UNCHANGED swFrame

\* cleanup(): logger.info("Cleaning up resources...")
SwCleanup ==
    /\ shutdown_watch.pc = "cleanup"
    /\ shutdown_watch' = [shutdown_watch EXCEPT !.pc = "close"]
    /\ UNCHANGED swFrame

\* cleanup(): if stop_button is not None: stop_button.close()
SwClose ==
    /\ shutdown_watch.pc = "close"
    /\ shutdown_watch' =
        [shutdown_watch EXCEPT
            !.closes = IF shutdown_watch.stop_button # None THEN @ + 1 ELSE @,
            !.pc = "sys_exit"]
    /\ UNCHANGED swFrame

\* cleanup(): sys.exit(0)
SwSysExit ==
    /\ shutdown_watch.pc = "sys_exit"
    /\ shutdown_watch' = [shutdown_watch EXCEPT !.code = 0, !.pc = "exit"]
    /\ UNCHANGED swFrame

\* the interpreter exits: the atexit functions run, the exit status is given
SwExit ==
    /\ shutdown_watch.pc = "exit"
    /\ shutdown_watch' =
        [shutdown_watch EXCEPT
            !.term = IF shutdown_watch.atexit THEN SwRestoreTerminal(shutdown_watch) ELSE @,
            !.exitCode = ExitStatus(shutdown_watch.code),
            !.pc = "exited"]
    /\ UNCHANGED swFrame

\* handle_signal(signal_received, frame), run in the main thread wherever it
\* is: logger.info (AttributeError, which nothing catches, while logger is
\* None), restore_terminal(), cleanup()
SwSignal ==
    /\ shutdown_watch.handlers
    /\ shutdown_watch.pc # "exited"
    /\ shutdown_watch.signals < MaxSignal
    /\ shutdown_watch' =
        IF shutdown_watch.logger = None
        THEN [shutdown_watch EXCEPT !.signals = @ + 1, !.code = 1, !.pc = "exit"]
        ELSE [shutdown_watch EXCEPT !.signals = @ + 1,
                                    !.term = SwRestoreTerminal(shutdown_watch),
                                    !.pc = "cleanup"]
    /\ UNCHANGED swFrame

\* the button is pressed or released
SwPress ==
    /\ shutdown_watch.pc # "exited"
    /\ shutdown_watch' = [shutdown_watch EXCEPT !.is_pressed = ~@]
    /\ UNCHANGED swFrame

\* another process creates or removes /tmp/stop
SwTouch ==
    /\ shutdown_watch.pc # "exited"
    /\ shutdown_watch' = [shutdown_watch EXCEPT !.stop_file = ~@]
    /\ UNCHANGED swFrame

SwMain ==
    \/ SwAtexitRegister
    \/ SwRegisterSignals
    \/ SwDisableCtrlcEcho
    \/ SwHandleArguments
    \/ SwButton
    \/ SwCheck
    \/ SwIsfile
    \/ SwRemove
    \/ SwTrigger
    \/ SwSleep
    \/ SwCleanup
    \/ SwClose
    \/ SwSysExit
    \/ SwExit

SwNext == SwMain \/ SwSignal \/ SwPress \/ SwTouch

swVars == <<shutdown_watch>>

SwSpec == SwInit /\ [][SwNext]_swVars

\* C18: a process of executables/shutdown_watch.py that acquired the button
\* has called stop_button.close() once when it has exited, and never more
\* than once at any time.
C18_GpioReleasedOnce ==
    /\ shutdown_watch.closes <= 1
    /\ (shutdown_watch.pc = "exited" /\ shutdown_watch.stop_button # None)
            => shutdown_watch.closes = 1

\* C19: in one iteration of the poll loop of wspr_watch.py at most one
\* semaphore file is detected, unlinked and dispatched.
C19_OneTriggerPerIteration ==
    Cardinality(iter.acted) <= 1

\* the classes of the first except clause of run() (FileNotFoundError is an
\* OSError)
FatalClasses == {"RuntimeError", "OSError", "FileNotFoundError", "ValueError", "SubprocessError"}

\* C20: an exception of class RuntimeError, OSError, ValueError or
\* SubprocessError that reaches run() is logged at critical severity and
\* run() calls sys.exit(1); the process exits with the code of the
\* sys.exit under way.
C20_FatalExceptionExits1 ==
    /\ [][(RunExcept /\ exc \in FatalClasses)
            => /\ log' = {"critical: unhandled application error"}
               /\ exc' = "SystemExit" /\ code' = 1
               /\ pc' = "exit"]_vars
    /\ [][Exit => exitCode' = code]_vars

\* an OSError (the FileNotFoundError of the poll's unlink) has left the poll
\* loop and the process has exited with code 1
C20_Witness ==
    /\ pc = "exited"
    /\ exitCode = 1
    /\ ~signalled /\ ~SpawnFailed
    /\ iter.acted # {}

\* the main thread of executables/shutdown_watch.py has found a trigger (the
\* test of line 167 was true) and has not yet called cleanup()
SwTriggered == {"isfile", "remove", "trigger"}

\* C22: executables/shutdown_watch.py handles at most one trigger and
\* launches at most one shutdown in its lifetime, none in debug mode; once it
\* has found a trigger its steps lead on to the action and to cleanup(),
\* removing /tmp/stop if present; and the process that has acted on a trigger
\* and exited has released the GPIO handle and has exit code 0.
C22_SingleTrigger ==
    /\ [](/\ shutdown_watch.triggers <= 1
          /\ shutdown_watch.shutdowns <= shutdown_watch.triggers
          /\ shutdown_watch.args.debug => shutdown_watch.shutdowns = 0)
    /\ [][(SwMain /\ shutdown_watch.pc \in SwTriggered)
            => /\ shutdown_watch'.pc \in SwTriggered \cup {"cleanup"}
               /\ (shutdown_watch.pc = "remove") => ~shutdown_watch'.stop_file]_swVars
    /\ []((shutdown_watch.pc = "exited" /\ shutdown_watch.triggers = 1)
            => (shutdown_watch.exitCode = 0 /\ shutdown_watch.closes >= 1))

\* the main thread of executables/shutdown_watch.py is in the while loop of
\* watch()
SwPollLoop == {"check", "isfile", "remove", "trigger", "sleep"}

\* C23: executables/shutdown_watch.py started with --watch does not enter
\* its poll loop without root privilege or without the button, and the
\* process that has exited, with no signal delivered, after the privilege
\* check failed or after gpiozero.Button failed has exit code 1.
C23_SetupFailureExits1 ==
    LET sw == shutdown_watch
        ran == sw.args.watch /\ sw.logger # None /\ sw.signals = 0
    IN  /\ (sw.args.watch /\ ~sw.root) => sw.pc \notin SwPollLoop \cup {"button"}
        /\ sw.stop_button = None => sw.pc \notin SwPollLoop
        /\ (sw.pc = "exited" /\ ran /\ ~sw.root) => sw.exitCode = 1
        /\ (sw.pc = "exited" /\ ran /\ sw.root /\ sw.stop_button = None)
                => sw.exitCode = 1

(* ================================================================== *)
(* scripts/shutdown_watch.py and scripts/shutdown-watch.py: the older  *)
(* watchers, which call os.system and stay in their loop               *)
(*                                                                     *)
(* script_watch is a record: script (which of the two files runs), pc  *)
(* (position of the main thread), debug (DEBUG / debug), root,         *)
(* handlers (cleanup is installed for SIGINT and SIGTERM), is_pressed  *)
(* and stop_file (the button and the stop file), system (the commands  *)
(* given to os.system, in order), triggers (passes through the body of *)
(* the trigger test), sleeps (the sleeps left in the countdown of the  *)
(* debug branch), code (argument of the exit under way), exitCode.     *)
(* ================================================================== *)

\* number of triggers an older watcher handles
MaxTrigger == 2

Scripts == {"scripts/shutdown_watch.py", "scripts/shutdown-watch.py"}

\* STOP_PIN, STOP_FILE and DO_TAPR are assigned nowhere in
\* scripts/shutdown_watch.py; scripts/shutdown-watch.py assigns stopPin,
\* stopFile and doTAPR = True at module level
NamesDefined(script) == script = "scripts/shutdown-watch.py"

\* the sleeps of the debug branch after `shutdown -h`, each followed by wall
Countdown == <<30, 20, 9>>

ScInit ==
    /\ WsprNotStarted
    /\ shutdown_watch = NotStarted
    /\ socketwatch = NotStarted
    /\ release = NotStarted
    /\ update_versions = NotStarted
    /\ script_watch \in
        [script : Scripts,
         pc : {"start"},
         debug : BOOLEAN,
         root : BOOLEAN,
         handlers : {FALSE},
         is_pressed : BOOLEAN,
         stop_file : BOOLEAN,
         system : {<<>>},
         triggers : {0},
         sleeps : {<<>>},
         code : {Running},
         exitCode : {Running}]

\* scripts/shutdown_watch.py: parse_args, DEBUG, logging, then
\* signal.signal(SIGINT / SIGTERM, cleanup); scripts/shutdown-watch.py has
\* nothing before its root check
ScStart ==
    /\ script_watch.pc = "start"
    /\ script_watch' =
        [script_watch EXCEPT
            !.handlers = (script_watch.script = "scripts/shutdown_watch.py"),
            !.pc = "is_root"]
    /\ UNCHANGED scFrame

\* if not is_root(): exit(1), else main()
ScIsRoot ==
    /\ script_watch.pc = "is_root"
    /\ script_watch' =
        IF script_watch.root
        THEN [script_watch EXCEPT !.pc = "button"]
        ELSE [script_watch EXCEPT !.code = 1, !.pc = "exit"]
    /\ UNCHANGED scFrame

\* main(): Button(STOP_PIN) / Button(stopPin), outside the try: NameError
\* where the name is not defined, or the exception of a failed Button, ends
\* the process with a traceback
ScButton ==
    /\ script_watch.pc = "button"
    /\ \E ok \in BOOLEAN :
        script_watch' =
            IF NamesDefined(script_watch.script) /\ ok
            THEN [script_watch EXCEPT !.pc = "check"]
            ELSE [script_watch EXCEPT !.code = 1, !.pc = "exit"]
    /\ UNCHANGED scFrame

\* if (stop_button.is_pressed and DO_TAPR) or path.isfile(STOP_FILE):
\* sleep(0.5)
ScCheck ==
    /\ script_watch.pc = "check"
    /\ script_watch' =
        [script_watch EXCEPT !.pc =
            IF script_watch.is_pressed \/ script_watch.stop_file
            THEN "recheck" ELSE "sleep"]
    /\ UNCHANGED scFrame

\* if stop_button.is_pressed or path.isfile(STOP_FILE):
ScRecheck ==
    /\ script_watch.pc = "recheck"
    /\ script_watch.triggers < MaxTrigger
    /\ script_watch' =
        IF script_watch.is_pressed \/ script_watch.stop_file
        THEN [script_watch EXCEPT !.triggers = @ + 1, !.pc = "isfile"]
        ELSE [script_watch EXCEPT !.pc = "sleep"]
    /\ UNCHANGED scFrame

\* if path.isfile(STOP_FILE):
ScIsfile ==
    /\ script_watch.pc = "isfile"
    /\ script_watch' =
        [script_watch EXCEPT !.pc = IF script_watch.stop_file THEN "remove" ELSE "act"]
    /\ UNCHANGED scFrame

\* remove(STOP_FILE): FileNotFoundError, which nothing catches, if the file
\* is gone
ScRemove ==
    /\ script_watch.pc = "remove"
    /\ script_watch' =
        IF script_watch.stop_file
        THEN [script_watch EXCEPT !.stop_file = FALSE, !.pc = "act"]
        ELSE [script_watch EXCEPT !.code = 1, !.pc = "exit"]
    /\ UNCHANGED scFrame

\* the os.system calls of the branch taken, up to the first sleep: the debug
\* branch announces with wall and runs `shutdown -h` (a shutdown scheduled by
\* the command's default delay), the other announces and runs
\* `shutdown -h now`
SystemCalls(debug) ==
    IF debug THEN <<"wall", "shutdown -h">> ELSE <<"wall", "shutdown -h now">>

\* if DEBUG: ... else: ...
ScAct ==
    /\ script_watch.pc = "act"
    /\ script_watch' =
        [script_watch EXCEPT
            !.system = @ \o SystemCalls(script_watch.debug),
            !.sleeps = IF script_watch.debug THEN Countdown ELSE <<>>,
            !.pc = IF script_watch.debug THEN "countdown" ELSE "sleep"]
    /\ UNCHANGED scFrame

\* the debug branch: sleep(30) / sleep(20) / sleep(9), then system('wall ...')
ScCountdown ==
    /\ script_watch.pc = "countdown"
    /\ script_watch' =
        [script_watch EXCEPT
            !.system = @ \o <<"wall">>,
            !.sleeps = Tail(@),
            !.pc = IF Len(script_watch.sleeps) > 1 THEN "countdown" ELSE "sleep"]
    /\ UNCHANGED scFrame

\* sleep(0.1), and the loop starts over
ScSleep ==
    /\ script_watch.pc = "sleep"
    /\ script_watch' = [script_watch EXCEPT !.pc = "check"]
    /\ UNCHANGED scFrame

\* the interpreter exits
ScExit ==
    /\ script_watch.pc = "exit"
    /\ script_watch' =
        [script_watch EXCEPT !.exitCode = ExitStatus(script_watch.code), !.pc = "exited"]
    /\ UNCHANGED scFrame

\* the main thread is in the try of main()
ScTry == {"check", "recheck", "isfile", "remove", "act", "countdown", "sleep"}

\* SIGINT or SIGTERM with cleanup installed: log, sys.exit(0); Ctrl-C
\* without a handler, in the try of main(): KeyboardInterrupt is caught,
\* main() returns and the script ends with exit(0)
ScSignal ==
    /\ script_watch.pc \notin {"start", "exit", "exited"}
    /\ script_watch.handlers \/ script_watch.pc \in ScTry
    /\ script_watch' = [script_watch EXCEPT !.code = 0, !.pc = "exit"]
    /\ UNCHANGED scFrame

\* the button is pressed or released
ScPress ==
    /\ script_watch.pc \in ScTry
    /\ script_watch' = [script_watch EXCEPT !.is_pressed = ~@]
    /\ UNCHANGED scFrame

\* another process creates or removes the stop file
ScTouch ==
    /\ script_watch.pc \in ScTry
    /\ script_watch' = [script_watch EXCEPT !.stop_file = ~@]
    /\ UNCHANGED scFrame

ScMain ==
    \/ ScStart
    \/ ScIsRoot
    \/ ScButton
    \/ ScCheck
    \/ ScRecheck
    \/ ScIsfile
    \/ ScRemove
    \/ ScAct
    \/ ScCountdown
    \/ ScSleep
    \/ ScExit

ScNext == ScMain \/ ScSignal \/ ScPress \/ ScTouch

scVars == <<script_watch>>

ScSpec == ScInit /\ [][ScNext]_scVars

\* C24: in debug mode the older watchers of scripts/ give no command to
\* os.system, whatever the trigger: they only log or print the action.
C24_DebugNoSystemAction ==
    script_watch.debug => script_watch.system = <<>>

\* C25: not in debug mode, when the process of wspr_watch.py has exited,
\* every semaphore file its poll loop deleted has had its command launched,
\* or else the exit code is not 0, also when a termination signal arrived
\* between the deletion, the log line and the launch.
C25_ConsumedTriggerNotDropped ==
    (~args.debug /\ pc = "exited")
        => /\ gen # Absent => exitCode # 0
           /\ \A i \in FileDispatches :
                dispatched[i].spawn # <<>> \/ exitCode # 0

(* ================================================================== *)
(* scripts/socketwatch.py: the WebSocket client (asyncio)              *)
(*                                                                     *)
(* One event loop runs main() and the three tasks of a session; a step *)
(* is what a coroutine does between two awaits.  socketwatch is a      *)
(* record: pc (position of main / run_session), shutdown_event, reader *)
(* (on_stdin_ready is registered), ws ("none", "open", "lost": the     *)
(* peer or the network has ended it, "closed": ended by this client),  *)
(* tasks (state of receiver_loop, keepalive_loop, input_loop),         *)
(* line_queue, i (index in `for task in tasks`), raised (an exception  *)
(* is leaving run_session), connects (calls of websockets.connect),    *)
(* log (lines of main() printed so far, as a set).                     *)
(* ================================================================== *)

\* number of calls of websockets.connect
MaxConnect == 3

\* number of lines waiting in line_queue
MaxQueue == 1

\* the tasks of a session, in the order of the list `tasks`
Tasks == <<"receiver_loop", "keepalive_loop", "input_loop">>

\* the lines typed: a command to send, or exit / quit
Lines == {"get_tx_state", "exit"}

\* what socketwatch.py never touches
sockFrame == <<vars, shutdown_watch, script_watch, release, update_versions>>

\* no session: no task exists
NoTasks == [t \in 1..3 |-> "none"]

\* asyncio.run(main()) starts main()
SockInit ==
    /\ WsprNotStarted
    /\ shutdown_watch = NotStarted
    /\ script_watch = NotStarted
    /\ release = NotStarted
    /\ update_versions = NotStarted
    /\ socketwatch =
        [pc |-> "install",
         shutdown_event |-> FALSE,
         handlers |-> FALSE,
         reader |-> FALSE,
         ws |-> "none",
         tasks |-> NoTasks,
         line_queue |-> <<>>,
         i |-> 0,
         raised |-> FALSE,
         connects |-> 0,
         log |-> {}]

\* main(): install_signal_handlers(loop)
SockInstall ==
    /\ socketwatch.pc = "install"
    /\ socketwatch' = [socketwatch EXCEPT !.handlers = TRUE, !.pc = "loop"]
    /\ UNCHANGED sockFrame

\* main(): `while not shutdown_event.is_set()`, and run_session up to its
\* first await: the queue, loop.add_reader, websockets.connect(...); or the
\* end of the loop and log("Shutting down cleanly.")
SockLoop ==
    /\ socketwatch.pc = "loop"
    /\ IF socketwatch.shutdown_event
       THEN socketwatch' = [socketwatch EXCEPT !.log = @ \cup {"Shutting down cleanly."},
                                               !.pc = "done"]
       ELSE /\ socketwatch.connects < MaxConnect
            /\ socketwatch' = [socketwatch EXCEPT !.line_queue = <<>>,
                                                  !.reader = TRUE,
                                                  !.connects = @ + 1,
                                                  !.pc = "connect"]
    /\ UNCHANGED sockFrame

\* websockets.connect(...) completes: the connection is open, or it raises
SockConnect ==
    /\ socketwatch.pc = "connect"
    /\ \E ok \in BOOLEAN :
        socketwatch' =
            IF ok
            THEN [socketwatch EXCEPT !.ws = "open", !.pc = "send"]
            ELSE [socketwatch EXCEPT !.raised = TRUE, !.pc = "leave"]
    /\ UNCHANGED sockFrame

\* log("Connected"), await send_command(ws, "get_tx_state") (ConnectionClosed
\* if the connection is lost already), then the three tasks are created
SockSend ==
    /\ socketwatch.pc = "send"
    /\ socketwatch' =
        IF socketwatch.ws = "open"
        THEN [socketwatch EXCEPT !.tasks = [t \in 1..3 |-> "running"], !.pc = "wait"]
        ELSE [socketwatch EXCEPT !.raised = TRUE, !.pc = "leave"]
    /\ UNCHANGED sockFrame

\* await shutdown_event.wait() returns
SockWait ==
    /\ socketwatch.pc = "wait"
    /\ socketwatch.shutdown_event
    /\ socketwatch' = [socketwatch EXCEPT !.pc = "close"]
    /\ UNCHANGED sockFrame

\* with contextlib.suppress(Exception): await ws.close(...)
SockClose ==
    /\ socketwatch.pc = "close"
    /\ socketwatch' = [socketwatch EXCEPT !.ws = "closed", !.i = 1, !.pc = "cancel"]
    /\ UNCHANGED sockFrame

\* `with contextlib.suppress(asyncio.CancelledError): await task` raises the
\* exception of a task that has failed
AwaitTaskRaises(state) == state = "failed"

\* for task in tasks: task.cancel(); await task
SockCancel ==
    /\ socketwatch.pc = "cancel"
    /\ LET t == socketwatch.i
           state == socketwatch.tasks[t]
       IN socketwatch' =
            IF AwaitTaskRaises(state)
            THEN [socketwatch EXCEPT !.raised = TRUE, !.pc = "leave"]
            ELSE [socketwatch EXCEPT
                    !.tasks[t] = IF state = "running" THEN "cancelled" ELSE state,
                    !.i = IF t < 3 THEN t + 1 ELSE 0,
                    !.pc = IF t < 3 THEN "cancel" ELSE "leave"]
    /\ UNCHANGED sockFrame

\* (mutant) run_session without its finally clause
SockLeaveKeepsReader ==
    /\ socketwatch.pc = "leave"
    /\ socketwatch' =
        [socketwatch EXCEPT
            !.ws = IF @ = "none" THEN "none" ELSE "closed",
            !.i = 0,
            !.raised = FALSE,
            !.pc = IF socketwatch.raised THEN "except" ELSE "loop"]
    /\ UNCHANGED sockFrame

\* the end of `async with` (the connection is closed) and the finally
\* clause: loop.remove_reader(sys.stdin); run_session returns or raises
SockLeave ==
    /\ socketwatch.pc = "leave"
    /\ socketwatch' =
        [socketwatch EXCEPT
            !.ws = IF @ = "none" THEN "none" ELSE "closed",
            !.reader = FALSE,
            !.i = 0,
            !.raised = FALSE,
            !.pc = IF socketwatch.raised THEN "except" ELSE "loop"]
    /\ UNCHANGED sockFrame

\* main(): except Exception: break if shutdown is requested, else the two
\* log lines and asyncio.sleep(RECONNECT_DELAY_S)
SockExcept ==
    /\ socketwatch.pc = "except"
    /\ socketwatch' =
        IF socketwatch.shutdown_event
        THEN [socketwatch EXCEPT !.log = @ \cup {"Shutting down cleanly."}, !.pc = "done"]
        ELSE [socketwatch EXCEPT !.log = @ \cup {"Disconnected", "Reconnecting"},
                                 !.pc = "sleep"]
    /\ UNCHANGED sockFrame

\* asyncio.sleep(RECONNECT_DELAY_S) is over
SockSleep ==
    /\ socketwatch.pc = "sleep"
    /\ socketwatch' = [socketwatch EXCEPT !.pc = "loop"]
    /\ UNCHANGED sockFrame

\* asyncio.run: main() has returned, the tasks that are left are cancelled
\* and the loop is closed
SockRunEnd ==
    /\ socketwatch.pc = "done"
    /\ socketwatch' =
        [socketwatch EXCEPT
            !.tasks = [t \in 1..3 |-> IF @[t] = "running" THEN "cancelled" ELSE @[t]],
            !.pc = "exited"]
    /\ UNCHANGED sockFrame

\* the event loop is running
SockRunning == socketwatch.pc \notin {"done", "exited"}

\* receiver_loop: the iteration over ws ends when the connection is closed
\* normally and raises ConnectionClosedError when it is lost; a message that
\* arrives after the shutdown request ends it
SockReceiver ==
    /\ SockRunning
    /\ socketwatch.tasks[1] = "running"
    /\ \/ /\ socketwatch.ws = "lost"
          /\ \E s \in {"done", "failed"} :
                socketwatch' = [socketwatch EXCEPT !.tasks[1] = s]
       \/ /\ socketwatch.ws = "closed" \/ socketwatch.shutdown_event
          /\ socketwatch' = [socketwatch EXCEPT !.tasks[1] = "done"]
    /\ UNCHANGED sockFrame

\* keepalive_loop: ws.ping() or the wait for the pong raises ConnectionClosed
\* on a connection that has ended; the loop ends when shutdown is requested
SockKeepalive ==
    /\ SockRunning
    /\ socketwatch.tasks[2] = "running"
    /\ \/ /\ socketwatch.ws # "open"
          /\ socketwatch' = [socketwatch EXCEPT !.tasks[2] = "failed"]
       \/ /\ socketwatch.shutdown_event
          /\ socketwatch' = [socketwatch EXCEPT !.tasks[2] = "done"]
    /\ UNCHANGED sockFrame

\* input_loop: it returns when shutdown is requested; it takes a line from
\* the queue: exit / quit sets the event and returns, another line is sent
\* (ConnectionClosed on a connection that has ended)
SockInput ==
    /\ SockRunning
    /\ socketwatch.tasks[3] = "running"
    /\ \/ /\ socketwatch.shutdown_event
          /\ socketwatch' = [socketwatch EXCEPT !.tasks[3] = "done"]
       \/ /\ ~socketwatch.shutdown_event
          /\ socketwatch.line_queue # <<>>
          /\ LET line == Head(socketwatch.line_queue) IN
             socketwatch' =
                IF line = "exit"
                THEN [socketwatch EXCEPT !.line_queue = Tail(@),
                                         !.shutdown_event = TRUE,
                                         !.tasks[3] = "done"]
                ELSE IF socketwatch.ws = "open"
                THEN [socketwatch EXCEPT !.line_queue = Tail(@)]
                ELSE [socketwatch EXCEPT !.line_queue = Tail(@), !.tasks[3] = "failed"]
    /\ UNCHANGED sockFrame

\* on_stdin_ready: end of input sets the event, a line goes to the queue
SockStdin ==
    /\ SockRunning
    /\ socketwatch.reader
    /\ \/ socketwatch' = [socketwatch EXCEPT !.shutdown_event = TRUE]
       \/ /\ Len(socketwatch.line_queue) < MaxQueue
          /\ \E line \in Lines :
                socketwatch' = [socketwatch EXCEPT !.line_queue = Append(@, line)]
    /\ UNCHANGED sockFrame

\* request_shutdown, called by the loop for SIGINT or SIGTERM
SockSignal ==
    /\ SockRunning
    /\ socketwatch.handlers
    /\ socketwatch' = [socketwatch EXCEPT !.shutdown_event = TRUE]
    /\ UNCHANGED sockFrame

\* the server or the network ends the connection
SockConnectionLost ==
    /\ socketwatch.ws = "open"
    /\ socketwatch' = [socketwatch EXCEPT !.ws = "lost"]
    /\ UNCHANGED sockFrame

\* the steps of main() and run_session
SockMain ==
    \/ SockInstall
    \/ SockLoop
    \/ SockConnect
    \/ SockSend
    \/ SockWait
    \/ SockClose
    \/ SockCancel
    \/ SockLeave
    \/ SockExcept
    \/ SockSleep
    \/ SockRunEnd

SockTasks == SockReceiver \/ SockKeepalive \/ SockInput

SockNext == SockMain \/ SockTasks \/ SockStdin \/ SockSignal \/ SockConnectionLost

sockVars == <<socketwatch>>

\* the event loop runs every coroutine that is ready
SockSpec ==
    /\ SockInit
    /\ [][SockNext]_sockVars
    /\ WF_sockVars(SockMain)
    /\ WF_sockVars(SockReceiver)
    /\ WF_sockVars(SockKeepalive)
    /\ WF_sockVars(SockInput)

\* C26: when the connection of an established session is lost and shutdown
\* has not been requested, then, unless shutdown is requested, the client
\* eventually has logged the disconnect and has opened the next connection.
C26_LostConnectionReconnects ==
    \A n \in 1..(MaxConnect - 1) :
        (/\ socketwatch.pc = "wait"
         /\ socketwatch.ws = "lost"
         /\ ~socketwatch.shutdown_event
         /\ socketwatch.connects = n)
            ~> (\/ socketwatch.shutdown_event
                \/ /\ socketwatch.connects = n + 1
                   /\ "Disconnected" \in socketwatch.log)

\* main() of socketwatch.py has returned
SockEnded == socketwatch.pc \in {"done", "exited"}

\* C27 as stated: once shutdown is requested the event stays set, no call of
\* websockets.connect follows, and main eventually returns, with the stdin
\* reader removed and every task of the session cancelled or finished.
C27_ShutdownTerminates ==
    /\ [][socketwatch.shutdown_event => socketwatch'.shutdown_event]_sockVars
    /\ [][socketwatch'.connects > socketwatch.connects
            => ~socketwatch.shutdown_event]_sockVars
    /\ socketwatch.shutdown_event ~> SockEnded
    /\ [](SockEnded => /\ ~socketwatch.reader
                       /\ \A t \in 1..3 : socketwatch.tasks[t] # "running")

\* C27 amended: ... and main eventually returns, with the stdin reader
\* removed; the tasks of the session are then cancelled or finished unless
\* one of them had failed, in which case awaiting it raises its exception
\* out of run_session and the tasks after it are cancelled only by
\* asyncio.run, before the process ends.
C27_ShutdownTerminatesTasksByRun ==
    /\ [][socketwatch.shutdown_event => socketwatch'.shutdown_event]_sockVars
    /\ [][socketwatch'.connects > socketwatch.connects
            => ~socketwatch.shutdown_event]_sockVars
    /\ socketwatch.shutdown_event ~> SockEnded
    /\ [](SockEnded => ~socketwatch.reader)
    /\ []((socketwatch.pc = "done" /\ \E t \in 1..3 : socketwatch.tasks[t] = "running")
            => \E t \in 1..3 : socketwatch.tasks[t] = "failed")
    /\ [](socketwatch.pc = "exited"
            => \A t \in 1..3 : socketwatch.tasks[t] # "running")

\* shutdown was requested in an established session whose tasks were all
\* running, the three tasks were cancelled, and main has returned
C27_Witness ==
    /\ socketwatch.pc = "done"
    /\ socketwatch.shutdown_event
    /\ socketwatch.tasks = [t \in 1..3 |-> "cancelled"]
    /\ ~socketwatch.reader

(* ================================================================== *)
(* scripts/release.py: update_files                                    *)
(*                                                                     *)
(* A file is a sequence of lines; a line is one of the kinds of Kinds, *)
(* which are the lines update_file_content tells apart.  release is a  *)
(* record: DRY_RUN and ENABLE_BACKUP (Config), original (the files     *)
(* before the run), files (path -> content), bkp_dir (scripts/bkp      *)
(* exists), bkp (file name -> the backups of that name in scripts/bkp, *)
(* none or one), todo (files rglob has not yet given), file_path,      *)
(* updated_lines, printed (files whose diff was printed), pc.          *)
(* ================================================================== *)

\* number of lines of a file
MaxLines == 2

\* the comment lines update_file_content tells apart: a copyright line with
\* NAME_TAG whose years are / are not start-current_year, a version line
\* that carries / does not carry the current tag, hash and branch, a line
\* with a keyword of LICENSE_PATTERNS, and any other line
Kinds == {"copyright_old", "copyright_now", "version_old", "version_now",
          "license", "other"}

\* the files of the directories processed, with a supported extension
ReleaseFiles == {"scripts/install.sh", "src/main.cpp"}

\* sequences of at most n elements of S
SeqUpTo(S, n) == UNION {[1..k -> S] : k \in 0..n}

\* update_copyright_year(line, current_year)
UpdateCopyrightYear(line) == IF line = "copyright_old" THEN "copyright_now" ELSE line

\* update_version_line(line, ..., inside_excluded_section)
UpdateVersionLine(line, inside_excluded_section) ==
    IF inside_excluded_section THEN line
    ELSE IF line = "version_old" THEN "version_now" ELSE line

\* update_file_content: the loop over the lines, from line i on, with the
\* flag inside_excluded_section as the lines before i have left it
RECURSIVE UpdateLines(_, _, _)
UpdateLines(lines, i, inside_excluded_section) ==
    IF i > Len(lines) THEN <<>>
    ELSE LET line == lines[i]
             excluded == inside_excluded_section \/ line = "license"
             new == IF line \in {"copyright_old", "copyright_now"}
                    THEN UpdateCopyrightYear(line)
                    ELSE IF line \in {"version_old", "version_now"}
                    THEN UpdateVersionLine(line, excluded)
                    ELSE line
         IN <<new>> \o UpdateLines(lines, i + 1, excluded)

\* update_file_content(file_path, ...) on the content of the file
UpdateFileContent(lines) == UpdateLines(lines, 1, FALSE)

\* backup_file(file_path): scripts/bkp is created, and the file is copied
\* there unless a backup of that name exists
BackupFile(r) ==
    IF ~r.ENABLE_BACKUP THEN r
    ELSE [r EXCEPT !.bkp_dir = TRUE,
                   !.bkp[r.file_path] = IF @ = <<>> THEN <<r.files[r.file_path]>> ELSE @]

\* what scripts/release.py never touches
relFrame == <<vars, shutdown_watch, script_watch, socketwatch, update_versions>>

\* update_files is called
RelInit ==
    /\ WsprNotStarted
    /\ shutdown_watch = NotStarted
    /\ script_watch = NotStarted
    /\ socketwatch = NotStarted
    /\ update_versions = NotStarted
    /\ \E dry, backup \in BOOLEAN :
       \E content \in [ReleaseFiles -> SeqUpTo(Kinds, MaxLines)] :
        release =
            [pc |-> "rglob",
             DRY_RUN |-> dry,
             ENABLE_BACKUP |-> backup,
             original |-> content,
             files |-> content,
             bkp_dir |-> FALSE,
             bkp |-> [f \in ReleaseFiles |-> <<>>],
             todo |-> ReleaseFiles,
             file_path |-> None,
             updated_lines |-> <<>>,
             printed |-> {}]

\* for file_path in target_dir.rglob("*"): read_text, update_file_content,
\* and the comparison of the updated content with the original
RelUpdateFileContent ==
    /\ release.pc = "rglob"
    /\ \E f \in release.todo :
        LET updated == UpdateFileContent(release.files[f]) IN
        release' =
            [release EXCEPT
                !.todo = @ \ {f},
                !.file_path = IF updated # release.files[f] THEN f ELSE None,
                !.updated_lines = IF updated # release.files[f] THEN updated ELSE <<>>,
                !.pc = IF updated # release.files[f] THEN "backup" ELSE "rglob"]
    /\ UNCHANGED relFrame

\* if Config.ENABLE_BACKUP: backup_file(file_path)
RelBackup ==
    /\ release.pc = "backup"
    /\ release' = [BackupFile(release) EXCEPT !.pc = "write"]
    /\ UNCHANGED relFrame

\* if Config.DRY_RUN: the diff is printed; else it is printed and the file
\* is written
RelWrite ==
    /\ release.pc = "write"
    /\ release' =
        [release EXCEPT
            !.printed = @ \cup {release.file_path},
            !.files[release.file_path] = IF release.DRY_RUN THEN @ ELSE release.updated_lines,
            !.file_path = None,
            !.updated_lines = <<>>,
            !.pc = "rglob"]
    /\ UNCHANGED relFrame

RelNext == RelUpdateFileContent \/ RelBackup \/ RelWrite

relVars == <<release>>

RelSpec == RelInit /\ [][RelNext]_relVars

\* C28: with DRY_RUN set, update_files leaves every processed file with its
\* original content and creates no file and no directory, whatever
\* ENABLE_BACKUP is.
C28_DryRunNoChange ==
    release.DRY_RUN =>
        /\ release.files = release.original
        /\ ~release.bkp_dir
        /\ \A f \in ReleaseFiles : release.bkp[f] = <<>>

(* ================================================================== *)
(* release_tools/update_versions.py                                    *)
(*                                                                     *)
(* A file is a sequence of lines, a line one of UvLines: the lines     *)
(* parse_file_for_version_and_date tells apart.  update_versions is a  *)
(* record: dry_run, original (the files before the run), files (path   *)
(* -> content), todo (files_to_update not yet parsed), file_path,      *)
(* lines (the list read when the file was opened), line_num,           *)
(* changed_lines, files_changed, total_lines_changed, printed (the     *)
(* [Dry Run] reports, as <<file, line number>>), pc.                   *)
(* ================================================================== *)

\* the version and date lines with the value the run gives them
NewVersionLine == "# @version new"

NewVersionAssignment == "__version__ = \"new\""

NewDateLine == "# @date today"

\* the lines told apart: each pattern with an outdated value and with the
\* value of this run, and a line that starts with no pattern
UvLines == {"# @version old", NewVersionLine,
            "__version__ = \"old\"", NewVersionAssignment,
            "# @date old", NewDateLine,
            "other"}

\* the files find_files_to_update returns
UvFiles == {"scripts/install.sh", "release_tools/copy_exe.py"}

\* new_line for a line: the pattern the line starts with, stripped, and the
\* new version or the current date; None if the line starts with no pattern
NewLine(line) ==
    IF line \in {"# @version old", NewVersionLine} THEN NewVersionLine
    ELSE IF line \in {"__version__ = \"old\"", NewVersionAssignment} THEN NewVersionAssignment
    ELSE IF line \in {"# @date old", NewDateLine} THEN NewDateLine
    ELSE None

\* a pattern matches and line.strip() != new_line.strip()
Differs(line) == NewLine(line) # None /\ line # NewLine(line)

\* replace_line_in_file(file_path, line_num, new_line): the content of the
\* file after it, from the content it reads
ReplaceLineInFile(content, line_num, new_line) ==
    [content EXCEPT ![line_num] = new_line]

\* (mutant) a change that is written in a dry run too
ChangeLineAlwaysWrites(dry_run, content, line_num, new_line) ==
    ReplaceLineInFile(content, line_num, new_line)

\* `if dry_run: print(...) else: self.replace_line_in_file(...)`: the
\* content of the file afterwards
ChangeLine(dry_run, content, line_num, new_line) ==
    IF dry_run THEN content ELSE ReplaceLineInFile(content, line_num, new_line)

\* what release_tools/update_versions.py never touches
uvFrame == <<vars, shutdown_watch, script_watch, socketwatch, release>>

\* main(dry_run) has the list files_to_update
UvInit ==
    /\ WsprNotStarted
    /\ shutdown_watch = NotStarted
    /\ script_watch = NotStarted
    /\ socketwatch = NotStarted
    /\ release = NotStarted
    /\ \E dry \in BOOLEAN :
       \E content \in [UvFiles -> SeqUpTo(UvLines, MaxLines)] :
        update_versions =
            [pc |-> "files",
             dry_run |-> dry,
             original |-> content,
             files |-> content,
             todo |-> UvFiles,
             file_path |-> None,
             lines |-> <<>>,
             line_num |-> 0,
             changed_lines |-> 0,
             files_changed |-> {},
             total_lines_changed |-> 0,
             printed |-> {}]

\* main: `for file_path in files_to_update`, and the start of
\* parse_file_for_version_and_date: the file is opened and its lines read;
\* after the last file the results are printed
UvParseFile ==
    /\ update_versions.pc = "files"
    /\ IF update_versions.todo = {}
       THEN update_versions' = [update_versions EXCEPT !.pc = "done"]
       ELSE \E f \in update_versions.todo :
            update_versions' =
                [update_versions EXCEPT
                    !.todo = @ \ {f},
                    !.file_path = f,
                    !.lines = update_versions.files[f],
                    !.line_num = 1,
                    !.changed_lines = 0,
                    !.pc = "line"]
    /\ UNCHANGED uvFrame

\* parse_file_for_version_and_date: one line of the list read, through the
\* version patterns and the date patterns
UvLine ==
    /\ update_versions.pc = "line"
    /\ update_versions.line_num <= Len(update_versions.lines)
    /\ LET uv == update_versions
           n == uv.line_num
           line == uv.lines[n]
       IN update_versions' =
            IF Differs(line)
            THEN [uv EXCEPT
                    !.files[uv.file_path] = ChangeLine(uv.dry_run, @, n, NewLine(line)),
                    !.printed = IF uv.dry_run THEN @ \cup {<<uv.file_path, n>>} ELSE @,
                    !.changed_lines = @ + 1,
                    !.line_num = n + 1]
            ELSE [uv EXCEPT !.line_num = n + 1]
    /\ UNCHANGED uvFrame

\* parse_file_for_version_and_date returns changed, changed_lines; main adds
\* them to files_changed and total_lines_changed
UvFileParsed ==
    /\ update_versions.pc = "line"
    /\ update_versions.line_num > Len(update_versions.lines)
    /\ LET uv == update_versions IN
       update_versions' =
            [uv EXCEPT
                !.files_changed = IF uv.changed_lines > 0 THEN @ \cup {uv.file_path} ELSE @,
                !.total_lines_changed = @ + uv.changed_lines,
                !.file_path = None,
                !.lines = <<>>,
                !.line_num = 0,
                !.changed_lines = 0,
                !.pc = "files"]
    /\ UNCHANGED uvFrame

UvNext == UvParseFile \/ UvLine \/ UvFileParsed

uvVars == <<update_versions>>

UvSpec == UvInit /\ [][UvNext]_uvVars

\* the version and date lines of the files, as they were before the run,
\* that differ from their new value
DifferingLines ==
    {fl \in UvFiles \X (1..MaxLines) :
        /\ fl[2] <= Len(update_versions.original[fl[1]])
        /\ Differs(update_versions.original[fl[1]][fl[2]])}

\* C29: a dry run leaves the content of every file as it was and reports
\* only lines that differ from their new value; when the run is over it has
\* reported each such line, and the total of changed lines, in a dry run
\* and in a real run alike, is the number of version and date lines of the
\* files as they were that differ from their new value.
C29_DryRunReportsOnly ==
    LET uv == update_versions IN
    /\ uv.dry_run => (uv.files = uv.original /\ uv.printed \subseteq DifferingLines)
    /\ (uv.pc = "done" /\ uv.dry_run) => uv.printed = DifferingLines
    /\ uv.pc = "done" => uv.total_lines_changed = Cardinality(DifferingLines)

\* a dry run is over that reported a version line and a date line of one
\* file and a version assignment of the other
C29_Witness ==
    LET uv == update_versions IN
    /\ uv.pc = "done"
    /\ uv.dry_run
    /\ uv.total_lines_changed = 3
    /\ uv.files_changed = UvFiles
    /\ uv.files = uv.original

====
